---- MODULE Spec2Model ----
(***************************************************************************)
(* A model of gittimeline.py: repository discovery (find_git_repos),       *)
(* commit collection and filtering (collect_commits, process_branch,       *)
(* is_valid_committer, process_commit, categorize_commit_size), dataset    *)
(* assembly (create_commit_dataframe), the chart (generate_plot) and the   *)
(* output step (save_and_open_plot), driven by main.                       *)
(*                                                                         *)
(* Time is counted in minutes.  An epoch value is minutes since the epoch  *)
(* (UTC); a naive local datetime is the epoch value plus the collecting    *)
(* machine's UTC offset (datetime.fromtimestamp), from which the hour, the *)
(* minute and the '%H:%M' label are derived.  The offset is fixed during a  *)
(* run (no daylight-saving change between the commits and the run).        *)
(*                                                                         *)
(* Paths are sequences of path components, strings that the code inspects  *)
(* character by character (regular expressions, emails) are sequences of   *)
(* one-character strings.                                                  *)
(***************************************************************************)
EXTENDS Integers, Sequences, FiniteSets, TLC

VARIABLES
    pc,                  \* position of main: the next statement to run
    config,              \* the loaded config.json: key -> [kind, val]
    env,                 \* the machine: file system, repositories, clock, browsers
    base_dirs,           \* main's locals, set as main proceeds
    branches,
    committers_patterns,
    days,
    browser,
    repos,
    time_back_scope,
    commits,
    df,
    fig,
    visited,             \* the directories os.walk yielded, in order, per base dir
    opened,              \* the repositories Repo(repo_path) opened, in order
    artifact,            \* commit_history_timeline.html: NoFile or the figure written
    browser_opened,      \* whether the browser was asked to open the artifact
    error,               \* the exception that ended main, or NoError
    call,                \* unit harness: the function under test and its arguments
    ret                  \* unit harness: the value the function returned

vars == <<pc, config, env, base_dirs, branches, committers_patterns, days, browser, repos, time_back_scope, commits, df, fig, visited, opened, artifact, browser_opened, error, call, ret>>

locals == <<base_dirs, branches, committers_patterns, days, browser, repos, time_back_scope, commits, df, fig>>

effects == <<visited, opened, artifact, browser_opened>>

unit == <<call, ret>>

-----------------------------------------------------------------------------
(* Bounds of the model. *)

MaxDiff == 120

MaxEmailLen == 3

MaxBaseDirs == 2

MaxBranches == 2

-----------------------------------------------------------------------------
(* Constants of the program. *)

SmallLimit == 20

BigLimit == 100

HourFrom == 5

HourTo == 22

WindowDays == 8

TickFromHour == 5

TickToHour == 20

MinutesPerDay == 24 * 60

-----------------------------------------------------------------------------
(* Values that stand for "nothing". *)

Unset == [kind |-> "unset"]

NoError == [type |-> "none", at |-> "none", msg |-> "none"]

NoFile == [kind |-> "nofile"]

NaN == <<"NaN">>

Raise(type, at, msg) == [type |-> type, at |-> at, msg |-> msg]

-----------------------------------------------------------------------------
(* Sequence helpers. *)

Range(s) == {s[i] : i \in DOMAIN s}

RECURSIVE Concat(_)
Concat(ss) ==
    IF ss = <<>> THEN <<>> ELSE Head(ss) \o Concat(Tail(ss))

SeqsUpTo(S, n) == UNION {[1..k -> S] : k \in 0..n}

Max(S) == CHOOSE x \in S : \A y \in S : y <= x

-----------------------------------------------------------------------------
(* categorize_commit_size *)

categorize_commit_size_le(diff) ==
    IF diff <= SmallLimit THEN "small"
    ELSE IF diff < BigLimit THEN "normal"
    ELSE "big"

categorize_commit_size(diff) ==
    IF diff < SmallLimit THEN "small"
    ELSE IF diff < BigLimit THEN "normal"
    ELSE "big"

-----------------------------------------------------------------------------
(* Regular expressions: re.compile and Pattern.match.  A pattern string is *)
(* a sequence of characters; the model covers literals, "." (any           *)
(* character) and a postfix "*" (zero or more of the preceding item).      *)

\* re.compile raises re.error ("nothing to repeat", "multiple repeat") when a
\* "*" has no item before it.
RegexValid(chars) ==
    \A i \in DOMAIN chars : chars[i] = "*" => (i > 1 /\ chars[i - 1] # "*")

\* re.compile: the compiled pattern, a sequence of items [c, star].
RECURSIVE Compile(_)
Compile(chars) ==
    IF chars = <<>> THEN <<>>
    ELSE IF Len(chars) >= 2 /\ chars[2] = "*"
         THEN <<[c |-> chars[1], star |-> TRUE]>> \o Compile(SubSeq(chars, 3, Len(chars)))
         ELSE <<[c |-> chars[1], star |-> FALSE]>> \o Compile(Tail(chars))

ItemMatches(item, ch) == item.c = "." \/ item.c = ch

\* The positions at which a match of pat that starts right after position i of
\* s can end (the number of characters of s consumed up to the end of the match).
RECURSIVE MatchEnds(_, _, _)
MatchEnds(pat, s, i) ==
    IF pat = <<>> THEN {i}
    ELSE LET item == Head(pat) IN
         IF item.star
         THEN UNION {MatchEnds(Tail(pat), s, k) : k \in {j \in i..Len(s) : \A m \in (i + 1)..j : ItemMatches(item, s[m])}}
         ELSE IF i < Len(s) /\ ItemMatches(item, s[i + 1])
              THEN MatchEnds(Tail(pat), s, i + 1)
              ELSE {}

\* pattern.match(email): a match anchored at the start of email, ending anywhere.
PatternMatch(pat, email) == MatchEnds(pat, email, 0) # {}

is_valid_committer(email, patterns) ==
    \E i \in DOMAIN patterns : PatternMatch(patterns[i], email)

-----------------------------------------------------------------------------
(* Local time: datetime.fromtimestamp, datetime.now, .hour, strftime.      *)

\* datetime.fromtimestamp(epoch): the naive local datetime on a machine whose
\* clock is e.tz minutes east of UTC.
FromTimestamp(e, epoch) == epoch + e.tz

\* datetime.now()
DatetimeNow(e) == FromTimestamp(e, e.now)

MinuteOfDay(dt) == dt % MinutesPerDay

HourOf(dt) == MinuteOfDay(dt) \div 60

MinuteOf(dt) == MinuteOfDay(dt) % 60

Digit(n) == <<"0", "1", "2", "3", "4", "5", "6", "7", "8", "9">>[n + 1]

\* strftime('%H:%M'): two digits of the hour, a colon, two digits of the minute.
StrftimeHM(dt) ==
    <<Digit(HourOf(dt) \div 10), Digit(HourOf(dt) % 10), ":", Digit(MinuteOf(dt) \div 10), Digit(MinuteOf(dt) % 10)>>

\* timedelta(days=n)
Timedelta(n) == n * MinutesPerDay

-----------------------------------------------------------------------------
(* Paths and the directory walk of find_git_repos.                         *)

\* The byte order of the names the model uses (str comparison in Python).
NameOrder == <<".git", "A", "B", "E", "G", "G1", "G2", "N", "X", "home", "s", "~">>

NameRank(n) == CHOOSE i \in DOMAIN NameOrder : NameOrder[i] = n

Reverse(s) == [i \in DOMAIN s |-> s[Len(s) + 1 - i]]

\* os.path.basename
Basename(p) == IF p = <<>> THEN "" ELSE p[Len(p)]

\* os.path.normpath: "." components dropped, "name/.." collapsed.
RECURSIVE NormpathOnto(_, _)
NormpathOnto(done, rest) ==
    IF rest = <<>> THEN done
    ELSE IF Head(rest) = "." THEN NormpathOnto(done, Tail(rest))
    ELSE IF Head(rest) = ".." /\ done # <<>> /\ done[Len(done)] # ".."
         THEN NormpathOnto(SubSeq(done, 1, Len(done) - 1), Tail(rest))
         ELSE NormpathOnto(Append(done, Head(rest)), Tail(rest))

Normpath(p) == NormpathOnto(<<>>, p)

\* os.path.expanduser: a leading "~" becomes the home directory.
Expanduser(e, p) ==
    IF p # <<>> /\ Head(p) = "~" THEN e.home \o Tail(p) ELSE p

\* The sub-directories of directory d, in the order the file system lists them.
ListDirs(e, d) ==
    SelectSeq(e.listing, LAMBDA n : Append(d, n) \in e.fs)

\* os.walk(top) with the loop body of find_git_repos: the directories yielded,
\* top-down, each with whether it holds a '.git' directory.  The body removes
\* '.git' from dirs, so the walk does not enter it.  A top that is no directory
\* yields nothing.
RECURSIVE WalkKeepGit(_, _)
WalkKeepGit(e, d) ==
    IF d \notin e.fs THEN <<>>
    ELSE LET dirs == ListDirs(e, d)
             found == ".git" \in Range(dirs)
         IN  <<[root |-> d, found |-> found]>>
             \o Concat([i \in DOMAIN dirs |-> WalkKeepGit(e, Append(d, dirs[i]))])

RECURSIVE Walk(_, _)
Walk(e, d) ==
    IF d \notin e.fs THEN <<>>
    ELSE LET dirs == ListDirs(e, d)
             found == ".git" \in Range(dirs)
             kept == IF found THEN SelectSeq(dirs, LAMBDA n : n # ".git") ELSE dirs
         IN  <<[root |-> d, found |-> found]>>
             \o Concat([i \in DOMAIN kept |-> Walk(e, Append(d, kept[i]))])

\* The walk of the i-th base directory, each yield tagged with i.
WalkOf(e, dirs, i) ==
    LET yielded == Walk(e, Expanduser(e, dirs[i]))
    IN  [k \in DOMAIN yielded |-> [walk |-> i, dir |-> dirs[i], root |-> yielded[k].root, found |-> yielded[k].found]]

\* Every directory find_git_repos sees, in order.
WalkLog(e, dirs) == Concat([i \in DOMAIN dirs |-> WalkOf(e, dirs, i)])

\* The tuple appended for a repository root: (f"{base_folder_name}/{repo_name}",
\* root, base_folder_name).
RepoTuple(y) ==
    LET repo_name == Basename(y.root)
        base_folder_name == Basename(Normpath(y.dir))
    IN  <<<<base_folder_name, repo_name>>, y.root, base_folder_name>>

find_git_repos(e, dirs) ==
    LET log == WalkLog(e, dirs)
        hits == SelectSeq(log, LAMBDA y : y.found)
    IN  [i \in DOMAIN hits |-> RepoTuple(hits[i])]

-----------------------------------------------------------------------------
(* Repositories: e.git maps a repository path to its heads (branch name -> *)
(* tip) and its checked-out branch; e.objects maps a commit hash to the    *)
(* commit.  Histories are linear: a commit has at most one parent.         *)

Detached == "(detached)"

\* repo.iter_commits(branch): the tip and its ancestors, newest first.
RECURSIVE IterCommits(_, _)
IterCommits(e, c) ==
    IF e.objects[c].parents = <<>> THEN <<c>>
    ELSE <<c>> \o IterCommits(e, e.objects[c].parents[1])

\* 5 <= commit_time.hour <= 22
HourInWindowOpenEnd(commit_time) ==
    HourFrom <= HourOf(commit_time) /\ HourOf(commit_time) < HourTo

HourInWindow(commit_time) ==
    HourFrom <= HourOf(commit_time) /\ HourOf(commit_time) <= HourTo

\* The two conditions of process_branch on one commit.
CommitKept(e, c, patterns, scope) ==
    LET commit_time == FromTimestamp(e, e.objects[c].committed_date)
    IN  /\ commit_time >= scope
        /\ HourInWindow(commit_time)
        /\ is_valid_committer(e.objects[c].email, patterns)

\* repo.active_branch raises TypeError when HEAD is detached.
ActiveBranchRaises(e, repo_path) == e.git[repo_path].active = Detached

process_commit(e, c, repo_path, base_folder) ==
    LET diff == e.objects[c].lines
        size_category == categorize_commit_size(diff)
    IN  [repo |-> Basename(repo_path),
         committer |-> e.objects[c].email,
         branch |-> e.git[repo_path].active,
         hash |-> c,
         message |-> e.objects[c].message,
         date |-> FromTimestamp(e, e.objects[c].committed_date),
         time |-> StrftimeHM(FromTimestamp(e, e.objects[c].committed_date)),
         group |-> base_folder,
         change_lines |-> diff,
         change_size_cat |-> size_category]

process_branch(e, repo_path, branch, patterns, scope, base_folder) ==
    LET history == IterCommits(e, e.git[repo_path].heads[branch])
        kept == SelectSeq(history, LAMBDA c : CommitKept(e, c, patterns, scope))
    IN  IF kept # <<>> /\ ActiveBranchRaises(e, repo_path)
        THEN [error |-> Raise("TypeError", "process_commit", "HEAD is a detached symbolic reference"), val |-> <<>>]
        ELSE [error |-> NoError, val |-> [i \in DOMAIN kept |-> process_commit(e, kept[i], repo_path, base_folder)]]

\* for branch in branches: if branch in repo.heads
BranchesToWalkOnce(heads, names) ==
    LET sel == SelectSeq(names, LAMBDA b : b \in DOMAIN heads)
    IN  IF sel = <<>> THEN sel ELSE <<sel[1]>>

BranchesToWalk(heads, names) ==
    SelectSeq(names, LAMBDA b : b \in DOMAIN heads)

\* One round of the loop of collect_commits over repos: Repo(repo_path), then
\* the loop over the configured branches, which stops at the first exception.
CollectRepo(e, r, br, patterns, scope) ==
    IF br.kind # "list"
    THEN [error |-> Raise("TypeError", "collect_commits", "branches is not iterable"), val |-> <<>>]
    ELSE LET todo == BranchesToWalk(e.git[r[2]].heads, br.val)
             got == [i \in DOMAIN todo |-> process_branch(e, r[2], todo[i], patterns, scope, r[3])]
             bad == {i \in DOMAIN got : got[i].error # NoError}
         IN  IF bad # {}
             THEN [error |-> got[CHOOSE i \in bad : \A j \in bad : i <= j].error, val |-> <<>>]
             ELSE [error |-> NoError, val |-> Concat([i \in DOMAIN got |-> got[i].val])]

\* collect_commits: the commits of every repository in turn; opened lists the
\* repositories opened before the function returned or raised.
RECURSIVE collect_commits(_, _, _, _, _)
collect_commits(e, rs, br, patterns, scope) ==
    IF rs = <<>> THEN [error |-> NoError, val |-> <<>>, opened |-> <<>>]
    ELSE LET one == CollectRepo(e, Head(rs), br, patterns, scope)
         IN  IF one.error # NoError
             THEN [error |-> one.error, val |-> <<>>, opened |-> <<Head(rs)[2]>>]
             ELSE LET rest == collect_commits(e, Tail(rs), br, patterns, scope)
                  IN  [error |-> rest.error,
                       val |-> IF rest.error = NoError THEN one.val \o rest.val ELSE <<>>,
                       opened |-> <<Head(rs)[2]>> \o rest.opened]

-----------------------------------------------------------------------------
(* The dataset and the chart.                                              *)

\* sort_values: a stable sort (the rows are few: the sort is an insertion sort).
GroupRepoLess(a, b) ==
    \/ NameRank(a.group) < NameRank(b.group)
    \/ a.group = b.group /\ NameRank(a.repo) < NameRank(b.repo)

\* less[i, j]: row i sorts before row j.
StableSort(s, less) ==
    LET pos(i) == 1 + Cardinality({j \in DOMAIN s : less[j, i] \/ (~less[i, j] /\ j < i)})
    IN  [k \in DOMAIN s |-> s[CHOOSE i \in DOMAIN s : pos(i) = k]]

\* df.sort_values(by='date')
SortByDate(rows) ==
    StableSort(rows, [i \in DOMAIN rows, j \in DOMAIN rows |-> rows[i].date < rows[j].date])

\* df.sort_values(by=['group', 'repo'])
SortByGroupRepo(rows) ==
    StableSort(rows, [i \in DOMAIN rows, j \in DOMAIN rows |-> GroupRepoLess(rows[i], rows[j])])

EmptyResultError == Raise("KeyError", "create_commit_dataframe", "No relevant commits found")

create_commit_dataframe_unchecked(rows) ==
    [error |-> NoError, val |-> SortByDate(rows)]

create_commit_dataframe(rows) ==
    IF rows = <<>>
    THEN [error |-> EmptyResultError, val |-> <<>>]
    ELSE IF \A i \in DOMAIN rows : "date" \notin DOMAIN rows[i]
    THEN [error |-> Raise("KeyError", "create_commit_dataframe", "'date' column is missing from the DataFrame"), val |-> <<>>]
    ELSE [error |-> NoError, val |-> SortByDate(rows)]

\* pd.date_range("05:00", "20:00", freq="h").strftime('%H:%M')
hourly_ticks == {StrftimeHM(h * 60) : h \in TickFromHour..TickToHour}

\* pd.date_range("05:00", "20:00", freq="1min").strftime('%H:%M')
all_possible_ticks == {StrftimeHM(m) : m \in (TickFromHour * 60)..(TickToHour * 60)}

\* pd.Categorical(values, categories): a value outside the categories is NaN.
Categorical(label, categories) == IF label \in categories THEN label ELSE NaN

size_map == [small |-> 1, normal |-> 2, big |-> 4]

generate_plot(rows) ==
    IF rows = <<>>
    THEN [error |-> Raise("KeyError", "generate_plot", "date"), val |-> Unset]
    ELSE LET end_date == Max({rows[i].date : i \in DOMAIN rows}) + Timedelta(1)
             start_date == end_date - Timedelta(WindowDays)
             timed == [i \in DOMAIN rows |-> [rows[i] EXCEPT !.time = Categorical(@, all_possible_ticks)]]
             sorted == SortByGroupRepo(timed)
             sized == [i \in DOMAIN sorted |-> [change_size_num |-> size_map[sorted[i].change_size_cat]] @@ sorted[i]]
         IN  [error |-> NoError,
              val |-> [data |-> sized, range |-> <<start_date, end_date>>, tickvals |-> hourly_ticks]]

\* webbrowser.get(browser) raises webbrowser.Error for a name that is no
\* registered browser (and TypeError for a value that is no string).
BrowserFound(e, b) == b.kind = "string" /\ b.val \in e.browsers

-----------------------------------------------------------------------------
(* main, one action per statement group.                                   *)

ConfigKeys == <<"base_dirs", "branches", "committers", "days", "browser">>

\* What reading key k of config raises, or NoError: config[k] raises KeyError
\* for a missing key; the list comprehension over config['committers'] raises
\* TypeError for a value that is no list and re.error for a bad pattern.
ReadError(cfg, k) ==
    IF k \notin DOMAIN cfg THEN Raise("KeyError", "main", k)
    ELSE IF k = "committers" /\ cfg[k].kind # "list"
    THEN Raise("TypeError", "main", "committers is not iterable")
    ELSE IF k = "committers" /\ \E i \in DOMAIN cfg[k].val : ~RegexValid(cfg[k].val[i])
    THEN Raise("re.error", "main", "nothing to repeat")
    ELSE NoError

\* The first statement of lines 131-135 that raises.
FirstReadError(cfg) ==
    LET bad == {i \in DOMAIN ConfigKeys : ReadError(cfg, ConfigKeys[i]) # NoError}
    IN  IF bad = {} THEN NoError
        ELSE ReadError(cfg, ConfigKeys[CHOOSE i \in bad : \A j \in bad : i <= j])

Fail(err) == pc' = "failed" /\ error' = err

\* Lines 130-135.
ReadConfig ==
    /\ pc = "config"
    /\ IF FirstReadError(config) # NoError
       THEN /\ Fail(FirstReadError(config))
            /\ UNCHANGED <<base_dirs, branches, committers_patterns, days, browser>>
       ELSE /\ pc' = "find"
            /\ base_dirs' = config["base_dirs"]
            /\ branches' = config["branches"]
            /\ committers_patterns' = [i \in DOMAIN config["committers"].val |-> Compile(config["committers"].val[i])]
            /\ days' = config["days"]
            /\ browser' = config["browser"]
            /\ UNCHANGED error
    /\ UNCHANGED <<config, env, repos, time_back_scope, commits, df, fig, effects, unit>>

\* Line 137.
FindGitRepos ==
    /\ pc = "find"
    /\ IF base_dirs.kind # "list"
       THEN /\ Fail(Raise("TypeError", "find_git_repos", "base_dirs is not iterable"))
            /\ UNCHANGED <<repos, visited>>
       ELSE /\ pc' = "scope"
            /\ repos' = find_git_repos(env, base_dirs.val)
            /\ visited' = WalkLog(env, base_dirs.val)
            /\ UNCHANGED error
    /\ UNCHANGED <<config, env, base_dirs, branches, committers_patterns, days, browser, time_back_scope, commits, df, fig, opened, artifact, browser_opened, unit>>

\* Line 138.
ComputeScope ==
    /\ pc = "scope"
    /\ IF days.kind # "number"
       THEN /\ Fail(Raise("TypeError", "main", "unsupported type for timedelta days component"))
            /\ UNCHANGED time_back_scope
       ELSE /\ pc' = "collect"
            /\ time_back_scope' = DatetimeNow(env) - Timedelta(days.val)
            /\ UNCHANGED error
    /\ UNCHANGED <<config, env, base_dirs, branches, committers_patterns, days, browser, repos, commits, df, fig, effects, unit>>

\* Line 139.
CollectCommits ==
    /\ pc = "collect"
    /\ LET got == collect_commits(env, repos, branches, committers_patterns, time_back_scope)
       IN  /\ opened' = got.opened
           /\ IF got.error # NoError
              THEN Fail(got.error) /\ UNCHANGED commits
              ELSE pc' = "dataframe" /\ commits' = got.val /\ UNCHANGED error
    /\ UNCHANGED <<config, env, base_dirs, branches, committers_patterns, days, browser, repos, time_back_scope, df, fig, visited, artifact, browser_opened, unit>>

\* Line 140.
CreateCommitDataframe ==
    /\ pc = "dataframe"
    /\ LET got == create_commit_dataframe(commits)
       IN  IF got.error # NoError
           THEN Fail(got.error) /\ UNCHANGED df
           ELSE pc' = "plot" /\ df' = got.val /\ UNCHANGED error
    /\ UNCHANGED <<config, env, base_dirs, branches, committers_patterns, days, browser, repos, time_back_scope, commits, fig, effects, unit>>

\* Line 141.
GeneratePlot ==
    /\ pc = "plot"
    /\ LET got == generate_plot(df)
       IN  IF got.error # NoError
           THEN Fail(got.error) /\ UNCHANGED fig
           ELSE pc' = "save" /\ fig' = got.val /\ UNCHANGED error
    /\ UNCHANGED <<config, env, base_dirs, branches, committers_patterns, days, browser, repos, time_back_scope, commits, df, effects, unit>>

\* Line 142: fig.write_html, then webbrowser.get(browser) and its open.
SaveAndOpenPlot ==
    /\ pc = "save"
    /\ artifact' = fig
    /\ IF BrowserFound(env, browser)
       THEN pc' = "done" /\ browser_opened' = TRUE /\ UNCHANGED error
       ELSE Fail(Raise("webbrowser.Error", "save_and_open_plot", "could not locate runnable browser")) /\ UNCHANGED browser_opened
    /\ UNCHANGED <<config, env, locals, visited, opened, unit>>

-----------------------------------------------------------------------------
(* The unit harness: one call of a pure function.                          *)

CallCategorizeCommitSize ==
    /\ pc = "call"
    /\ call.fn = "categorize_commit_size"
    /\ ret' = [val |-> categorize_commit_size(call.diff)]
    /\ pc' = "returned"
    /\ UNCHANGED <<config, env, locals, effects, error, call>>

CallIsValidCommitter ==
    /\ pc = "call"
    /\ call.fn = "is_valid_committer"
    /\ ret' = [val |-> is_valid_committer(call.email, [i \in DOMAIN call.patterns |-> Compile(call.patterns[i])])]
    /\ pc' = "returned"
    /\ UNCHANGED <<config, env, locals, effects, error, call>>

-----------------------------------------------------------------------------
(* The machines and configurations the model runs main on.                 *)

TimeAt(day, hour, minute) == day * MinutesPerDay + hour * 60 + minute

List(v) == [kind |-> "list", val |-> v]

Number(v) == [kind |-> "number", val |-> v]

String(v) == [kind |-> "string", val |-> v]

Absent == [kind |-> "absent"]

\* A config.json: the keys whose option is not Absent.
ConfigFrom(opt) ==
    [k \in {x \in Range(ConfigKeys) : opt[x] # Absent} |-> opt[k]]

RepoA == <<"G1", "A">>

RepoB == <<"G2", "B">>

\* Two roots with one repository each.
PipelineFs == {<<"G1">>, RepoA, Append(RepoA, ".git"), <<"G2">>, RepoB, Append(RepoB, ".git")}

GoodEmail == <<"u", "@", "x">>

OtherEmail == <<"v", "@", "y">>

\* The pattern ".*@x"
GoodPattern == <<".", "*", "@", "x">>

BranchNames == {"main", "dev", "feat"}

\* The heads of repository A: main at c2, and maybe dev, at c1 or at c2.
HeadChoices ==
    {[main |-> "c2"], [main |-> "c2", dev |-> "c1"], [main |-> "c2", dev |-> "c2"]}

\* Epoch values of the first commit: around the edges of the hour window, in
\* the middle of the day, after 20:00, and around the edge of the lookback.
FirstCommitTimes ==
    {TimeAt(18, 4, 59), TimeAt(18, 5, 0), TimeAt(18, 12, 0), TimeAt(18, 20, 1), TimeAt(18, 22, 59), TimeAt(18, 23, 0), TimeAt(12, 18, 0)}

SecondCommitTimes == {TimeAt(19, 21, 30), TimeAt(19, 3, 0)}

TzChoices == {0, 60}

DaysChoices == {7, 8}

Machine(fs, listing, home, headsA, activeA, t1, e1, t2, tz) ==
    [fs |-> fs,
     listing |-> listing,
     home |-> home,
     git |-> (RepoA :> [heads |-> headsA, active |-> activeA]) @@ (RepoB :> [heads |-> [main |-> "c1"], active |-> "main"]),
     objects |-> [c1 |-> [committed_date |-> t1, email |-> e1, lines |-> 100, message |-> "first", parents |-> <<>>],
                  c2 |-> [committed_date |-> t2, email |-> GoodEmail, lines |-> 19, message |-> "second", parents |-> <<"c1">>]],
     now |-> TimeAt(20, 12, 0),
     tz |-> tz,
     browsers |-> {"firefox"}]

PipelineMachines ==
    {Machine(PipelineFs, NameOrder, <<"home">>, h, a, t1, e1, t2, tz) :
        h \in HeadChoices, a \in {"main", "dev", Detached}, t1 \in FirstCommitTimes,
        e1 \in {GoodEmail, OtherEmail}, t2 \in SecondCommitTimes, tz \in TzChoices}

DefaultMachine ==
    Machine(PipelineFs, NameOrder, <<"home">>, [main |-> "c2"], "main", TimeAt(18, 12, 0), GoodEmail, TimeAt(19, 21, 30), 0)

InitLocals ==
    /\ base_dirs = Unset
    /\ branches = Unset
    /\ committers_patterns = Unset
    /\ days = Unset
    /\ browser = Unset
    /\ repos = <<>>
    /\ time_back_scope = Unset
    /\ commits = <<>>
    /\ df = <<>>
    /\ fig = Unset

InitEffects ==
    /\ visited = <<>>
    /\ opened = <<>>
    /\ artifact = NoFile
    /\ browser_opened = FALSE
    /\ error = NoError

InitNoCall == call = [fn |-> "none"] /\ ret = Unset

\* main on well-formed configurations, over the machines.
Init ==
    /\ pc = "config"
    /\ env \in {m \in PipelineMachines : m.git[RepoA].active \in DOMAIN m.git[RepoA].heads \cup {Detached}}
    /\ config \in {ConfigFrom([base_dirs |-> List(<<<<"G1">>, <<"G2">>>>), branches |-> List(b), committers |-> List(<<GoodPattern>>), days |-> Number(d), browser |-> String("firefox")]) :
                       b \in SeqsUpTo(BranchNames, MaxBranches), d \in DaysChoices}
    /\ InitLocals /\ InitEffects /\ InitNoCall

Next ==
    \/ ReadConfig
    \/ FindGitRepos
    \/ ComputeScope
    \/ CollectCommits
    \/ CreateCommitDataframe
    \/ GeneratePlot
    \/ SaveAndOpenPlot

Spec == Init /\ [][Next]_vars

\* main on every combination of present, missing and malformed fields, on one
\* machine.
ConfigOptions ==
    [base_dirs : {Absent, List(<<<<"G1">>, <<"G2">>>>), Number(0)},
     branches : {Absent, List(<<"main">>), Number(0)},
     committers : {Absent, List(<<GoodPattern>>), List(<<<<"*">>>>), Number(0)},
     days : {Absent, Number(7), String("7")},
     browser : {Absent, String("firefox"), String("nosuch"), Number(0)}]

InitConfig ==
    /\ pc = "config"
    /\ env = DefaultMachine
    /\ config \in {ConfigFrom(opt) : opt \in ConfigOptions}
    /\ InitLocals /\ InitEffects /\ InitNoCall

SpecConfig == InitConfig /\ [][Next]_vars

\* find_git_repos alone, over directory trees and base directories.
WalkPaths ==
    {<<"G">>, <<"G", "A">>, <<"G", "A", ".git">>, <<"G", "A", ".git", "N">>, <<"G", "A", ".git", "N", ".git">>,
     <<"G", "A", "s">>, <<"G", "A", "s", ".git">>, <<"G", "E">>}

IsPrefix(p, q) == Len(p) <= Len(q) /\ SubSeq(q, 1, Len(p)) = p

\* The directory trees: a directory exists only inside an existing directory.
WalkTrees ==
    {t \in SUBSET WalkPaths : \A p \in t : Len(p) > 1 => SubSeq(p, 1, Len(p) - 1) \in t}

WalkRoots == {<<"G">>, <<"G", "A">>, <<"G", "A", ".git">>, <<"X">>, <<"~">>}

InitWalk ==
    /\ pc = "find"
    /\ env \in {Machine(t, l, <<"G">>, [main |-> "c1"], "main", TimeAt(18, 12, 0), GoodEmail, TimeAt(19, 21, 30), 0) :
                    t \in WalkTrees, l \in {NameOrder, Reverse(NameOrder)}}
    /\ config \in {ConfigFrom([base_dirs |-> List(b), branches |-> Absent, committers |-> Absent, days |-> Absent, browser |-> Absent]) :
                       b \in SeqsUpTo(WalkRoots, MaxBaseDirs)}
    /\ base_dirs = config["base_dirs"]
    /\ branches = Unset
    /\ committers_patterns = Unset
    /\ days = Unset
    /\ browser = Unset
    /\ repos = <<>>
    /\ time_back_scope = Unset
    /\ commits = <<>>
    /\ df = <<>>
    /\ fig = Unset
    /\ InitEffects /\ InitNoCall

NextWalk == FindGitRepos

SpecWalk == InitWalk /\ [][NextWalk]_vars

\* One call of a pure function.
Alphabet == {"u", "@", "x"}

UnitPatterns == {GoodPattern, <<"u", "@", "x">>, <<"u">>, <<".", "@">>}

UnitCalls ==
    {[fn |-> "categorize_commit_size", diff |-> d] : d \in 0..MaxDiff}
    \cup {[fn |-> "is_valid_committer", email |-> m, patterns |-> ps] : m \in SeqsUpTo(Alphabet, MaxEmailLen), ps \in SeqsUpTo(UnitPatterns, 2)}

InitUnit ==
    /\ pc = "call"
    /\ env = DefaultMachine
    /\ config = ConfigFrom([base_dirs |-> Absent, branches |-> Absent, committers |-> Absent, days |-> Absent, browser |-> Absent])
    /\ InitLocals /\ InitEffects
    /\ call \in UnitCalls
    /\ ret = Unset

NextUnit ==
    \/ CallCategorizeCommitSize
    \/ CallIsValidCommitter

SpecUnit == InitUnit /\ [][NextUnit]_vars

-----------------------------------------------------------------------------
(* The claims.                                                             *)

\* main has got past collect_commits: it returned.
Collected ==
    \/ pc \in {"dataframe", "plot", "save", "done"}
    \/ pc = "failed" /\ error.at \in {"create_commit_dataframe", "generate_plot", "save_and_open_plot"}

\* The local hour of commit c on this machine, from its stored epoch value.
LocalHourOfCommit(c) ==
    ((env.objects[c].committed_date + env.tz) % (24 * 60)) \div 60

\* Commit c passes the recency and the author conditions.
RecentAndByCommitter(c) ==
    /\ env.objects[c].committed_date + env.tz >= time_back_scope
    /\ \E i \in DOMAIN committers_patterns : PatternMatch(committers_patterns[i], env.objects[c].email)

\* The commits reachable from the tip of head b of the repository at path.
ReachableFrom(path, b) == Range(IterCommits(env, env.git[path].heads[b]))

\* The positions of the configured branches that are heads of the repository at
\* path and from whose tip commit c is reachable.
BranchEntriesReaching(path, c) ==
    {k \in DOMAIN branches.val : branches.val[k] \in DOMAIN env.git[path].heads /\ c \in ReachableFrom(path, branches.val[k])}

\* The records of commit c of the repository at path in the collected result.
RecordsOf(path, c) ==
    {i \in DOMAIN commits : commits[i].repo = Basename(path) /\ commits[i].hash = c}

\* C1: when collect_commits returns an empty list, create_commit_dataframe
\* raises the "No relevant commits found" error, and the run never gets to
\* generate_plot or save_and_open_plot: the output file is not written and the
\* browser is not opened.
C1_EmptyResultFails ==
    (Collected /\ commits = <<>>) =>
        /\ pc \in {"dataframe", "failed"}
        /\ pc = "failed" => error = EmptyResultError
        /\ artifact = NoFile
        /\ browser_opened = FALSE

\* C1 witness: a run that found and opened repositories, collected nothing and
\* ended in the empty-result error with no file written.
C1_Witness ==
    /\ pc = "failed"
    /\ error = EmptyResultError
    /\ repos # <<>>
    /\ opened # <<>>
    /\ commits = <<>>
    /\ artifact = NoFile

\* C3: of the commits in the history of a walked branch, one has a record in
\* the collected result exactly if it passes the recency and author conditions
\* and its local hour is one of 5..22: a commit at hour 0-4 or 23 has no record
\* whatever else holds of it, and hours 5 and 22 do not exclude a commit.
C3_HourWindow ==
    Collected =>
        \A i \in DOMAIN repos : \A k \in DOMAIN branches.val :
            branches.val[k] \in DOMAIN env.git[repos[i][2]].heads =>
                \A c \in ReachableFrom(repos[i][2], branches.val[k]) :
                    /\ RecordsOf(repos[i][2], c) # {} <=> (RecentAndByCommitter(c) /\ LocalHourOfCommit(c) \in 5..22)
                    /\ \A r \in RecordsOf(repos[i][2], c) : commits[r].date = env.objects[c].committed_date + env.tz

\* C3 witness: the result holds a commit of local hour 22, and a recent commit
\* by a configured committer, of a walked branch, is left out for its hour.
C3_Witness ==
    /\ Collected
    /\ \E r \in DOMAIN commits : LocalHourOfCommit(commits[r].hash) = 22
    /\ \E k \in DOMAIN branches.val :
           /\ branches.val[k] \in DOMAIN env.git[RepoA].heads
           /\ \E c \in ReachableFrom(RepoA, branches.val[k]) :
                  /\ RecentAndByCommitter(c)
                  /\ LocalHourOfCommit(c) \in {0, 1, 2, 3, 4, 23}
                  /\ RecordsOf(RepoA, c) = {}

\* C5: categorize_commit_size(x) is small exactly if x < 20, normal exactly if
\* 20 <= x < 100, big exactly if x >= 100, and is one of the three.
C5_Categories ==
    (pc = "returned" /\ call.fn = "categorize_commit_size") =>
        /\ ret.val \in {"small", "normal", "big"}
        /\ ret.val = "small" <=> call.diff < 20
        /\ ret.val = "normal" <=> (20 <= call.diff /\ call.diff < 100)
        /\ ret.val = "big" <=> call.diff >= 100

\* C5 witness: the call with 20 returned normal.
C5_Witness ==
    /\ pc = "returned"
    /\ call.fn = "categorize_commit_size"
    /\ call.diff = 20
    /\ ret.val = "normal"

\* C6: when collect_commits returns, a commit that passes the filters has, for
\* each discovered repository, as many records as there are configured branch
\* entries that are heads of the repository and reach the commit; a configured
\* branch that is no head adds no record, and collect_commits raises only when
\* HEAD is detached, never for a branch that is missing.
C6_NoDeduplication ==
    /\ Collected =>
           \A i \in DOMAIN repos : \A c \in DOMAIN env.objects :
               (RecentAndByCommitter(c) /\ LocalHourOfCommit(c) \in 5..22) =>
                   Cardinality(RecordsOf(repos[i][2], c)) = Cardinality(BranchEntriesReaching(repos[i][2], c))
    /\ (pc = "failed" /\ error.at \in {"collect_commits", "process_commit"}) =>
           \E i \in DOMAIN repos : env.git[repos[i][2]].active = Detached

\* C6 witness: two different configured branches are heads of repository A and
\* reach one commit, which has two records.
C6_Witness ==
    /\ Collected
    /\ Len(branches.val) = 2
    /\ branches.val[1] # branches.val[2]
    /\ \E c \in DOMAIN env.objects :
           /\ BranchEntriesReaching(RepoA, c) = {1, 2}
           /\ Cardinality(RecordsOf(RepoA, c)) = 2

\* C7: within the walk of a base directory, once a directory is found to hold
\* a '.git' directory, no directory at or below that '.git' is yielded, so none
\* is reported as a repository by that walk; the walk of a base directory with
\* no '.git' directory anywhere below it reports no repository; and the result
\* lists exactly the directories the walks found to hold '.git'.
C7_NoDescentIntoGit ==
    pc = "scope" =>
        /\ \A i \in DOMAIN visited : \A j \in DOMAIN visited :
               (visited[i].found /\ visited[j].walk = visited[i].walk) =>
                   ~IsPrefix(Append(visited[i].root, ".git"), visited[j].root)
        /\ \A w \in DOMAIN base_dirs.val :
               LET top == Expanduser(env, base_dirs.val[w])
               IN  (\A p \in env.fs : IsPrefix(top, p) => ".git" \notin Range(SubSeq(p, Len(top) + 1, Len(p)))) =>
                       \A i \in DOMAIN visited : visited[i].walk = w => ~visited[i].found
        /\ Len(repos) = Cardinality({i \in DOMAIN visited : visited[i].found})
        /\ \A k \in DOMAIN repos : \E i \in DOMAIN visited : visited[i].found /\ visited[i].root = repos[k][2]

\* C7 witness: a walk reported a repository whose '.git' directory holds a
\* directory that itself holds a '.git' directory.
C7_Witness ==
    /\ pc = "scope"
    /\ \E i \in DOMAIN visited :
           /\ visited[i].found
           /\ visited[i].root \o <<".git", "N", ".git">> \in env.fs
           /\ \E k \in DOMAIN repos : repos[k][2] = visited[i].root

\* A field of config.json is present and well formed.
FieldOk(cfg, k) ==
    /\ k \in DOMAIN cfg
    /\ k = "base_dirs" => cfg[k].kind = "list"
    /\ k = "branches" => cfg[k].kind = "list"
    /\ k = "committers" => (cfg[k].kind = "list" /\ \A i \in DOMAIN cfg[k].val : RegexValid(cfg[k].val[i]))
    /\ k = "days" => cfg[k].kind = "number"
    /\ k = "browser" => (cfg[k].kind = "string" /\ cfg[k].val \in env.browsers)

\* C2 (as claimed): if a recognized field of the configuration is missing or
\* malformed, the run aborts before collect_commits opens any repository, and
\* the output file is never written.
C2_BadConfigAbortsEarly ==
    (\E k \in Range(ConfigKeys) : ~FieldOk(config, k)) =>
        /\ opened = <<>>
        /\ artifact = NoFile
        /\ pc # "done"

\* A match of pat that accounts for the whole of email (pattern.fullmatch).
PatternFullMatch(pat, email) == Len(email) \in MatchEnds(pat, email, 0)

\* C4 (as claimed): is_valid_committer accepts an email exactly if one of the
\* configured patterns matches the whole of it.
C4_FullMatch ==
    (pc = "returned" /\ call.fn = "is_valid_committer") =>
        (ret.val <=> \E i \in DOMAIN call.patterns : PatternFullMatch(Compile(call.patterns[i]), call.email))

\* C8 (as claimed): the window of the chart ends one day after the latest
\* commit of the dataset and starts the configured number of days before its
\* end.
C8_WindowFollowsDays ==
    fig # Unset =>
        /\ fig.range[2] = Max({df[i].date : i \in DOMAIN df}) + 24 * 60
        /\ fig.range[1] = fig.range[2] - days.val * 24 * 60

\* C9 (as claimed): a record made while iterating configured branch b carries
\* branch b: for each configured branch entry b that is a head, each commit of
\* its history that passes the filters has as many records with branch = b as
\* b has entries in the configuration.
C9_BranchOfIteration ==
    Collected =>
        \A i \in DOMAIN repos : \A k \in DOMAIN branches.val :
            branches.val[k] \in DOMAIN env.git[repos[i][2]].heads =>
                \A c \in ReachableFrom(repos[i][2], branches.val[k]) :
                    (RecentAndByCommitter(c) /\ LocalHourOfCommit(c) \in 5..22) =>
                        Cardinality({r \in RecordsOf(repos[i][2], c) : commits[r].branch = branches.val[k]})
                            = Cardinality({m \in DOMAIN branches.val : branches.val[m] = branches.val[k]})

\* C10 (as claimed): every record of the chart keeps its 'HH:MM' label, which
\* is one of the categories of the time axis.
C10_TimeLabelDefined ==
    fig # Unset =>
        \A i \in DOMAIN fig.data :
            /\ fig.data[i].time # NaN
            /\ fig.data[i].time = StrftimeHM(fig.data[i].date)
            /\ fig.data[i].time \in all_possible_ticks

====
